---- MODULE Spec2Model ----
(***************************************************************************)
(* Model of opencog/query/PatternLinkRuntime.cc: the Grounding Collector   *)
(* (class PMCGroundings), the Combinatorial Joiner (recursive_virtual)     *)
(* and the Orchestrator (PatternLink::satisfy).                            *)
(*                                                                         *)
(* A HandleMap is modelled as a set of <<key, value>> pairs, a HandleSeq   *)
(* as a sequence of handles (numbers), a HandleMapSeq as a sequence of     *)
(* maps.  The caller's callback (pmcb) is the environment: each of its     *)
(* boolean answers is chosen freely at the call and recorded in ev.        *)
(***************************************************************************)
EXTENDS Integers, Sequences, FiniteSets, TLC

\* ------------------------------------------------------------- bounds
MaxComps == 2
MaxGnds == 2
MaxVirt == 1

\* Handle::UNDEFINED, the default-constructed Handle of line 196.
Undefined == 0

\* ------------------------------------------------------------ handles
VirtHandle(j) == 200 + j
OptHandle(k, j) == 300 + (10 * k) + j
VarHandle(p, n) == (10 * p) + n
ClauseHandle(p) == 100 + p

\* The shapes a component pattern can have: the sizes of pat.mandatory and
\* pat.optionals (a component holds at least one clause).
ComponentShapes ==
    { [mandatory |-> 1, optionals |-> 0],
      [mandatory |-> 1, optionals |-> 1],
      [mandatory |-> 0, optionals |-> 1] }

\* ---------------------------------------------------------- HandleMap
EmptyMap == {}
Keys(m) == { p[1] : p \in m }
\* std::map::insert(first, last): a pair whose key is present is not
\* inserted; the stored binding stays.
MapInsertIgnoringBase(m, cand) == cand
MapInsert(m, cand) ==
    m \cup { p \in cand : p[1] \notin Keys(m) }

\* --------------------------------------------------------------- state
VARIABLES
    num_comps,           \* PatternLink::_num_comps
    component_patterns,  \* _component_patterns: the Pattern of each component
    virtuals,            \* _virtual
    optionals,           \* _pat.optionals
    target,              \* per pattern (0 = the overall one, k = component k):
                         \* how many groundings its search discovers
    cbIsDefault,         \* is pmcb a DefaultPatternMatchCB?
    matched,             \* the pure-optional components one of whose optional
                         \* clauses the search matched in the target data
    pc,                  \* position in satisfy
    i,                   \* the component loop's index (1-based), 0 outside it
    gcb,                 \* the PMCGroundings of the current iteration
    found,               \* the direct path's local 'found'
    srch,                \* groundings the running search has reported so far
    comp_var_gnds,       \* satisfy's comp_var_gnds
    comp_term_gnds,      \* satisfy's comp_term_gnds
    stack,               \* the activation records of recursive_virtual
    retval,              \* value returned by the last finished recursive_virtual
    result,              \* what satisfy returned (meaningful when pc = "done")
    ev,                  \* the call the last step made on pmcb, if any
    log,                 \* the lifecycle calls made on pmcb so far
    cur,                 \* the calls the Joiner made for the current combination
    explored,            \* the combinations that reached the base case, in order
    accepted,            \* has pmcb.grounding answered true inside the Joiner?
    fwd,                 \* a PMCGroundings called on its own: the last call made
                         \* on it, what it sent to _cb and what it gave back
    decomp               \* get_connected_components run on its own: its
                         \* arguments, its work list and its two outputs

inputs == <<num_comps, component_patterns, virtuals, optionals, target, cbIsDefault>>
locals == <<matched, pc, i, gcb, found, srch, comp_var_gnds, comp_term_gnds, stack, retval, result>>
observed == <<ev, log, cur, explored, accepted>>
apart == <<fwd, decomp>>
vars == <<inputs, locals, observed, apart>>

\* ------------------------------------------------------------- records
NoEv == [op |-> "none", a |-> 0, h |-> 0, b |-> FALSE,
         vg |-> EmptyMap, tg |-> EmptyMap, ret |-> FALSE]
Call(op, a, h, b, vg, tg, ret) ==
    [op |-> op, a |-> a, h |-> h, b |-> b, vg |-> vg, tg |-> tg, ret |-> ret]

EmptyCollector == [term_groundings |-> <<>>, var_groundings |-> <<>>]

\* The solutions the external search engine reports for pattern p: the g-th
\* one it discovers binds the variables and the clause of p.
VarSoln(p, g) == { <<VarHandle(p, 1), g>>, <<VarHandle(p, 2), g + 1>> }
TermSoln(p, g) == { <<ClauseHandle(p), g>> }

\* What a callback gives back: the boolean of the boolean operations, the
\* IncomingSet of get_incoming_set; nothing for the void ones.
Answer(b, inc) == [b |-> b, inc |-> inc]
NoAnswer == Answer(FALSE, {})

\* No call has been made on the stand-alone Collector yet.
NoForward ==
    [req |-> NoEv, sent |-> <<>>, ans |-> NoAnswer, out |-> NoAnswer,
     g |-> EmptyCollector]

\* get_connected_components has not been called.
NoDecomp ==
    [pc |-> "idle", vars |-> {}, body |-> <<>>, todo |-> <<>>,
     compset |-> <<>>, compvars |-> <<>>]

AllOptionals(cps) ==
    LET RECURSIVE Cat(_)
        Cat(k) == IF k = 0 THEN <<>>
                  ELSE Cat(k - 1) \o
                       [j \in 1..cps[k].optionals |-> OptHandle(k, j)]
    IN Cat(Len(cps))

\* ---------------------------------------------------------------- Init
Init ==
    /\ num_comps \in 0..MaxComps
    /\ component_patterns \in
         IF num_comps <= 1
         THEN { [k \in 1..num_comps |-> [mandatory |-> 1, optionals |-> 0]] }
         ELSE [1..num_comps -> ComponentShapes]
    /\ \E nv \in 0..MaxVirt : virtuals = [j \in 1..nv |-> VirtHandle(j)]
    /\ optionals = AllOptionals(component_patterns)
    /\ target \in [ (IF num_comps <= 1 THEN {0} ELSE 1..num_comps) -> 0..MaxGnds ]
    /\ cbIsDefault \in BOOLEAN
    /\ matched = {}
    /\ pc = "start"
    /\ i = 0
    /\ gcb = EmptyCollector
    /\ found = FALSE
    /\ srch = 0
    /\ comp_var_gnds = <<>>
    /\ comp_term_gnds = <<>>
    /\ stack = <<>>
    /\ retval = FALSE
    /\ result = FALSE
    /\ ev = NoEv
    /\ log = <<>>
    /\ cur = <<>>
    /\ explored = <<>>
    /\ accepted = FALSE
    /\ fwd = NoForward
    /\ decomp = NoDecomp

\* ------------------------------------------------- Grounding Collector
\* PMCGroundings::grounding: collect the grounding and answer false.
PMCGroundings_grounding_stopping(g, var_soln, term_soln) ==
    [gcb |-> [term_groundings |-> Append(g.term_groundings, term_soln),
              var_groundings |-> Append(g.var_groundings, var_soln)],
     ret |-> TRUE]
PMCGroundings_grounding(g, var_soln, term_soln) ==
    [gcb |-> [term_groundings |-> Append(g.term_groundings, term_soln),
              var_groundings |-> Append(g.var_groundings, var_soln)],
     ret |-> FALSE]

\* The pass-through methods (lines 51-105), by method: the calls the
\* Collector makes on _cb for the call c made on it.  A call carries its
\* handle arguments in a and h, its bool in b and its HandleMap in vg.
\* grounding is not passed on.
TwoHandleOps ==
    {"node_match", "variable_match", "scope_match", "link_match",
     "post_link_match", "fuzzy_match"}
PMCGroundings_forward_swapped(c) ==
    IF c.op = "grounding" THEN <<>>
    ELSE <<Call(c.op, c.h, c.a, c.b, c.vg, EmptyMap, FALSE)>>
PMCGroundings_forward_all(c) ==
    <<Call(c.op, c.a, c.h, c.b, c.vg, c.tg, FALSE)>>
PMCGroundings_forward(c) ==
    CASE c.op \in TwoHandleOps ->
           <<Call(c.op, c.a, c.h, FALSE, EmptyMap, EmptyMap, FALSE)>>
      [] c.op = "evaluate_sentence" ->
           <<Call("evaluate_sentence", c.a, Undefined, FALSE, c.vg, EmptyMap, FALSE)>>
      [] c.op = "clause_match" ->
           <<Call("clause_match", c.a, c.h, FALSE, c.vg, EmptyMap, FALSE)>>
      [] c.op = "optional_clause_match" ->
           <<Call("optional_clause_match", c.a, c.h, FALSE, c.vg, EmptyMap, FALSE)>>
      [] c.op = "get_incoming_set" ->
           <<Call("get_incoming_set", c.a, Undefined, FALSE, EmptyMap, EmptyMap, FALSE)>>
      [] c.op = "push" ->
           <<Call("push", Undefined, Undefined, FALSE, EmptyMap, EmptyMap, FALSE)>>
      [] c.op = "pop" ->
           <<Call("pop", Undefined, Undefined, FALSE, EmptyMap, EmptyMap, FALSE)>>
      [] c.op = "set_pattern" ->
           <<Call("set_pattern", c.a, Undefined, FALSE, EmptyMap, EmptyMap, FALSE)>>
      [] c.op = "initiate_search" ->
           <<Call("initiate_search", c.a, Undefined, FALSE, EmptyMap, EmptyMap, FALSE)>>
      [] c.op = "search_finished" ->
           <<Call("search_finished", Undefined, Undefined, c.b, EmptyMap, EmptyMap, FALSE)>>
      [] c.op = "grounding" -> <<>>

\* return _cb.op(...): what the Collector gives back for what _cb answered.
PMCGroundings_return_negated(op, ans) == Answer(~ans.b, ans.inc)
PMCGroundings_return(op, ans) == ans

\* The calls that can be made on a Collector: the handles, maps and bools
\* they carry are drawn from small sets.
ProbeHandles == {1, 2}
ProbeMaps == { EmptyMap, {<<1, 2>>} }
IncomingSets == SUBSET {401, 402}
VoidOps == {"push", "pop", "set_pattern"}
ForwardedCalls ==
    { Call(op, a, h, FALSE, EmptyMap, EmptyMap, FALSE) :
        op \in TwoHandleOps, a \in ProbeHandles, h \in ProbeHandles }
    \cup { Call("evaluate_sentence", a, Undefined, FALSE, m, EmptyMap, FALSE) :
             a \in ProbeHandles, m \in ProbeMaps }
    \cup { Call(op, a, h, FALSE, m, EmptyMap, FALSE) :
             op \in {"clause_match", "optional_clause_match"},
             a \in ProbeHandles, h \in ProbeHandles, m \in ProbeMaps }
    \cup { Call(op, a, Undefined, FALSE, EmptyMap, EmptyMap, FALSE) :
             op \in {"get_incoming_set", "set_pattern", "initiate_search"},
             a \in ProbeHandles }
    \cup { Call(op, Undefined, Undefined, FALSE, EmptyMap, EmptyMap, FALSE) :
             op \in {"push", "pop"} }
    \cup { Call("search_finished", Undefined, Undefined, b, EmptyMap, EmptyMap, FALSE) :
             b \in BOOLEAN }

\* What _cb can answer to a call of operation op.
Answers(op) ==
    IF op \in VoidOps THEN { NoAnswer }
    ELSE IF op = "get_incoming_set" THEN { Answer(FALSE, s) : s \in IncomingSets }
    ELSE { Answer(b, {}) : b \in BOOLEAN }

\* satisfy is not running: the Collector and the decomposer are exercised
\* on their own.
SatisfyNotRun ==
    /\ num_comps = 0
    /\ component_patterns = <<>>
    /\ virtuals = <<>>
    /\ optionals = <<>>
    /\ target = [p \in {0} |-> 0]
    /\ cbIsDefault = TRUE
    /\ matched = {}
    /\ pc = "idle"
    /\ i = 0
    /\ gcb = EmptyCollector
    /\ found = FALSE
    /\ srch = 0
    /\ comp_var_gnds = <<>>
    /\ comp_term_gnds = <<>>
    /\ stack = <<>>
    /\ retval = FALSE
    /\ result = FALSE
    /\ ev = NoEv
    /\ log = <<>>
    /\ cur = <<>>
    /\ explored = <<>>
    /\ accepted = FALSE

InitCollector ==
    /\ SatisfyNotRun
    /\ fwd = NoForward
    /\ decomp = NoDecomp

\* One of the pass-through methods is called: it calls _cb, which answers,
\* and returns.
CollectorForward ==
    \E c \in ForwardedCalls : \E ans \in Answers(c.op) :
       fwd' = [req |-> c,
               sent |-> [n \in 1..Len(PMCGroundings_forward(c)) |->
                           [PMCGroundings_forward(c)[n] EXCEPT !.ret = ans.b]],
               ans |-> ans,
               out |-> PMCGroundings_return(c.op, ans),
               g |-> fwd.g]
    /\ UNCHANGED <<inputs, locals, observed, decomp>>

\* grounding is called on the Collector.
CollectorGrounding ==
    /\ Len(fwd.g.term_groundings) < MaxGnds
    /\ \E n \in 1..MaxGnds :
         LET c == Call("grounding", Undefined, Undefined, FALSE,
                       VarSoln(1, n), TermSoln(1, n), FALSE)
             r == PMCGroundings_grounding(fwd.g, c.vg, c.tg)
         IN fwd' = [req |-> c, sent |-> PMCGroundings_forward(c),
                    ans |-> NoAnswer, out |-> Answer(r.ret, {}), g |-> r.gcb]
    /\ UNCHANGED <<inputs, locals, observed, decomp>>

NextCollector ==
    \/ CollectorForward
    \/ CollectorGrounding

SpecCollector == InitCollector /\ [][NextCollector]_vars

\* ------------------------------------------------- Component Decomposer
\* get_connected_components(vars, clauses, compset, compvars), after the
\* constant clauses were removed.  A clause is its position in the clause
\* list; body[c] is the set of atoms that occur in clause c.
MaxClauses == 3
DeclarableVars == {1, 2}
Atoms == {1, 2, 3}

\* is_constant(vars, clause): the clause holds no declared variable.
is_constant(vs, atoms) == atoms \cap vs = {}

\* The declared variables that occur in a clause.
ClauseVars(vs, atoms) == atoms \cap vs

\* A clause is connected to a component when it shares a declared variable
\* with it.
ConnectsAlways(cvars, compv) == TRUE
Connects(cvars, compv) == cvars \cap compv # {}

\* The first clause of the work list that is connected to a component, and
\* the first component it is connected to; <<>> when there is none.
FirstAttach(d) ==
    LET hits == { <<n, k>> \in (1..Len(d.todo)) \X (1..Len(d.compset)) :
                    Connects(ClauseVars(d.vars, d.body[d.todo[n]]), d.compvars[k]) }
    IN IF hits = {} THEN <<>>
       ELSE CHOOSE h \in hits :
              \A g \in hits : h[1] < g[1] \/ (h[1] = g[1] /\ h[2] <= g[2])

Without(s, n) == SubSeq(s, 1, n - 1) \o SubSeq(s, n + 1, Len(s))

InitDecompose ==
    /\ SatisfyNotRun
    /\ fwd = NoForward
    /\ \E n \in 0..MaxClauses : \E vs \in SUBSET DeclarableVars :
         \E body \in [1..n -> SUBSET Atoms] :
           decomp = [pc |-> "call", vars |-> vs, body |-> body, todo |-> <<>>,
                     compset |-> <<>>, compvars |-> <<>>]

\* The call: the clauses that are not constant are left to decompose.
DecomposeCall ==
    /\ decomp.pc = "call"
    /\ decomp' = [decomp EXCEPT
          !.pc = "run",
          !.todo = SelectSeq([c \in 1..Len(decomp.body) |-> c],
                             LAMBDA c : ~is_constant(decomp.vars, decomp.body[c]))]
    /\ UNCHANGED <<inputs, locals, observed, fwd>>

\* A clause of the work list is connected to a component: it joins it, and
\* its variables join the component's.
DecomposeAttach ==
    /\ decomp.pc = "run"
    /\ FirstAttach(decomp) # <<>>
    /\ LET n == FirstAttach(decomp)[1]
           k == FirstAttach(decomp)[2]
           cl == decomp.todo[n]
       IN decomp' = [decomp EXCEPT
            !.compset[k] = Append(@, cl),
            !.compvars[k] = @ \cup ClauseVars(decomp.vars, decomp.body[cl]),
            !.todo = Without(@, n)]
    /\ UNCHANGED <<inputs, locals, observed, fwd>>

\* No clause of the work list is connected to any component: one of them
\* starts a new component.
DecomposeNewComponent ==
    /\ decomp.pc = "run"
    /\ decomp.todo # <<>>
    /\ FirstAttach(decomp) = <<>>
    /\ LET cl == decomp.todo[1]
       IN decomp' = [decomp EXCEPT
            !.compset = Append(@, <<cl>>),
            !.compvars = Append(@, ClauseVars(decomp.vars, decomp.body[cl])),
            !.todo = Without(@, 1)]
    /\ UNCHANGED <<inputs, locals, observed, fwd>>

DecomposeReturn ==
    /\ decomp.pc = "run"
    /\ decomp.todo = <<>>
    /\ decomp' = [decomp EXCEPT !.pc = "done"]
    /\ UNCHANGED <<inputs, locals, observed, fwd>>

NextDecompose ==
    \/ DecomposeCall
    \/ DecomposeAttach
    \/ DecomposeNewComponent
    \/ DecomposeReturn

SpecDecompose == InitDecompose /\ [][NextDecompose]_vars

\* ---------------------------------------------------------- Orchestrator
\* if (_num_comps <= 1)
DirectPath == num_comps <= 1

\* is_pure_optional of the component loop.
IsPureOptional(pat) == pat.mandatory = 0 /\ pat.optionals > 0

\* The direct path returns what search_finished returned.
DirectResultOfSearch(f, r) == f
DirectResult(f, r) == r

LogEntry(op, a) == [op |-> op, a |-> a]

Start ==
    /\ pc = "start"
    /\ IF DirectPath
       THEN pc' = "set_pattern" /\ i' = 0
       ELSE pc' = "loop" /\ i' = 1
    /\ ev' = NoEv
    /\ UNCHANGED <<apart, inputs, matched, gcb, found, srch, comp_var_gnds, comp_term_gnds,
                   stack, retval, result, log, cur, explored, accepted>>

\* for (size_t i = 0; i < _num_comps; i++) { ... PMCGroundings gcb(pmcb);
LoopHead ==
    /\ pc = "loop"
    /\ IF i <= num_comps
       THEN pc' = "set_pattern"
       ELSE pc' = "join"
    /\ gcb' = EmptyCollector
    /\ ev' = NoEv
    /\ UNCHANGED <<apart, inputs, matched, i, found, srch, comp_var_gnds, comp_term_gnds,
                   stack, retval, result, log, cur, explored, accepted>>

\* pmcb.set_pattern(_varlist, _pat) of the direct path; for a component the
\* call goes to gcb, which passes it to pmcb.
SetPattern ==
    /\ pc = "set_pattern"
    /\ ev' = Call("set_pattern", i, Undefined, FALSE, EmptyMap, EmptyMap, FALSE)
    /\ log' = Append(log, LogEntry("set_pattern", i))
    /\ pc' = "initiate_search"
    /\ UNCHANGED <<apart, inputs, matched, i, gcb, found, srch, comp_var_gnds, comp_term_gnds,
                   stack, retval, result, cur, explored, accepted>>

\* pmcb.initiate_search(&pme), passed through by gcb for a component.
InitiateSearch ==
    /\ pc = "initiate_search"
    /\ ev' = Call("initiate_search", i, Undefined, FALSE, EmptyMap, EmptyMap, FALSE)
    /\ log' = Append(log, LogEntry("initiate_search", i))
    /\ srch' = 0
    /\ pc' = "search"
    /\ UNCHANGED <<apart, inputs, matched, i, gcb, found, comp_var_gnds, comp_term_gnds,
                   stack, retval, result, cur, explored, accepted>>

\* The search engine discovers its next grounding and reports it to the
\* callback it was given; an answer of true stops the search.
SearchReportDirect ==
    /\ pc = "search"
    /\ DirectPath
    /\ srch < target[i]
    /\ srch' = srch + 1
    /\ \E ret \in BOOLEAN :
         /\ ev' = Call("grounding", i, Undefined, FALSE,
                       VarSoln(i, srch + 1), TermSoln(i, srch + 1), ret)
         /\ IF ret
            THEN pc' = "search_finished" /\ found' \in BOOLEAN
            ELSE pc' = pc /\ found' = found
    /\ UNCHANGED <<apart, inputs, matched, i, gcb, comp_var_gnds, comp_term_gnds,
                   stack, retval, result, log, cur, explored, accepted>>

SearchReportCollector ==
    /\ pc = "search"
    /\ ~DirectPath
    /\ srch < target[i]
    /\ srch' = srch + 1
    /\ LET c == Call("grounding", i, Undefined, FALSE,
                     VarSoln(i, srch + 1), TermSoln(i, srch + 1), FALSE)
           r == PMCGroundings_grounding(gcb, c.vg, c.tg)
           sent == PMCGroundings_forward(c)
       IN /\ gcb' = r.gcb
          /\ IF r.ret
             THEN pc' = "search_finished" /\ found' \in BOOLEAN
             ELSE pc' = pc /\ found' = found
          /\ ev' = IF sent = <<>> THEN NoEv ELSE sent[1]
    /\ UNCHANGED <<apart, inputs, matched, i, comp_var_gnds, comp_term_gnds,
                   stack, retval, result, log, cur, explored, accepted>>

\* Nothing is left to discover: initiate_search returns.  The search of a
\* pure-optional component has by then matched one of its optional clauses
\* in the target data, or it has not.
SearchExhausted ==
    /\ pc = "search"
    /\ srch = target[i]
    /\ found' \in BOOLEAN
    /\ IF ~DirectPath /\ IsPureOptional(component_patterns[i])
       THEN \E m \in BOOLEAN : matched' = IF m THEN matched \cup {i} ELSE matched
       ELSE matched' = matched
    /\ pc' = "search_finished"
    /\ ev' = NoEv
    /\ UNCHANGED <<apart, inputs, i, gcb, srch, comp_var_gnds, comp_term_gnds,
                   stack, retval, result, log, cur, explored, accepted>>

\* clp->satisfy(gcb); the loop drops the value the component's satisfy
\* returns: it never makes the loop return.
ComponentResultAbortsOnFalse(r) == ~r
ComponentResultAborts(r) == FALSE

\* found = pmcb.search_finished(found); return found;  The value a
\* component's satisfy returns is dropped by the loop (clp->satisfy(gcb);).
SearchFinished ==
    /\ pc = "search_finished"
    /\ \E r \in BOOLEAN :
         /\ ev' = Call("search_finished", i, Undefined, found, EmptyMap, EmptyMap, r)
         /\ IF DirectPath
            THEN pc' = "done" /\ result' = DirectResult(found, r)
            ELSE IF ComponentResultAborts(r)
            THEN pc' = "done" /\ result' = FALSE
            ELSE pc' = "check" /\ result' = result
    /\ log' = Append(log, LogEntry("search_finished", i))
    /\ found' = FALSE
    /\ srch' = 0
    /\ UNCHANGED <<apart, inputs, matched, i, gcb, comp_var_gnds, comp_term_gnds,
                   stack, retval, cur, explored, accepted>>

\* if (dpmcb->optionals_present()) return false;
OptionalsPresentFails(present) == present

\* if (is_pure_optional) { dpmcb = dynamic_cast<DefaultPatternMatchCB*>(&pmcb);
\*                         if (dpmcb->optionals_present()) return false; }
\* DefaultPatternMatchCB::optionals_present answers whether the search has
\* matched an optional clause.
CheckPureOptional ==
    /\ pc = "check"
    /\ IsPureOptional(component_patterns[i])
    /\ cbIsDefault
    /\ LET present == i \in matched
       IN /\ ev' = Call("optionals_present", i, Undefined, FALSE, EmptyMap, EmptyMap, present)
          /\ IF OptionalsPresentFails(present)
             THEN pc' = "done" /\ result' = FALSE /\ i' = i
             ELSE pc' = "loop" /\ result' = result /\ i' = i + 1
    /\ log' = Append(log, LogEntry("optionals_present", i))
    /\ UNCHANGED <<apart, inputs, matched, gcb, found, srch, comp_var_gnds, comp_term_gnds,
                   stack, retval, cur, explored, accepted>>

\* The same lines when pmcb is not a DefaultPatternMatchCB: the cast gives a
\* null pointer and the member call through it is undefined: the run may
\* fault, or go on as if the call had answered either way.
CheckPureOptionalNullCast ==
    /\ pc = "check"
    /\ IsPureOptional(component_patterns[i])
    /\ ~cbIsDefault
    /\ \/ pc' = "fault" /\ result' = result /\ i' = i
       \/ pc' = "done" /\ result' = FALSE /\ i' = i
       \/ pc' = "loop" /\ result' = result /\ i' = i + 1
    /\ ev' = NoEv
    /\ UNCHANGED <<apart, inputs, matched, gcb, found, srch, comp_var_gnds, comp_term_gnds,
                   stack, retval, log, cur, explored, accepted>>

\* else { if (gcb._term_groundings.empty()) return false;
\*        comp_var_gnds.push_back(...); comp_term_gnds.push_back(...); }
EmptyFactorNever(g) == FALSE
EmptyFactor(g) == Len(g.term_groundings) = 0

CheckMandatory ==
    /\ pc = "check"
    /\ ~IsPureOptional(component_patterns[i])
    /\ IF EmptyFactor(gcb)
       THEN /\ pc' = "done" /\ result' = FALSE /\ i' = i
            /\ UNCHANGED <<comp_var_gnds, comp_term_gnds>>
       ELSE /\ pc' = "loop" /\ result' = result /\ i' = i + 1
            /\ comp_var_gnds' = Append(comp_var_gnds, gcb.var_groundings)
            /\ comp_term_gnds' = Append(comp_term_gnds, gcb.term_groundings)
    /\ ev' = NoEv
    /\ UNCHANGED <<apart, inputs, matched, gcb, found, srch, stack, retval, log, cur,
                   explored, accepted>>

\* ------------------------------------------------- Combinatorial Joiner
\* An activation record of recursive_virtual: its by-value parameters, its
\* locals vg, pg and i, the index k of the virtual/optional loops, and where
\* it stands.
NewFrame(var_gnds, term_gnds, cvg, ctg) ==
    [var_gnds |-> var_gnds, term_gnds |-> term_gnds,
     comp_var_gnds |-> cvg, comp_term_gnds |-> ctg,
     vg |-> <<>>, pg |-> <<>>, i |-> 0, k |-> 0, pc |-> "entry"]

Top == stack[Len(stack)]
Front(s) == SubSeq(s, 1, Len(s) - 1)
SetTop(f) == [stack EXCEPT ![Len(stack)] = f]

\* if (0 == comp_var_gnds.size())
BaseCase(f) == Len(f.comp_var_gnds) = 0

\* for (size_t i=0; i<ngnds; i++), with i counted from 1
LoopContinuesSkipLast(idx, ngnds) == idx < ngnds
LoopContinues(idx, ngnds) == idx <= ngnds

\* vg[i], pg[i]
CandidateFirst(seq, idx) == seq[1]
CandidateReversed(seq, idx) == seq[Len(seq) + 1 - idx]
Candidate(seq, idx) == seq[idx]

\* for (const Handle& virt : virtuals), for (const Handle& opt: optionals):
\* the k-th clause the loop visits.
ClauseAtReversed(seq, k) == seq[Len(seq) + 1 - k]
ClauseAt(seq, k) == seq[k]

\* if (not match) return false;
RejectsNever(match) == FALSE
Rejects(match) == ~match

\* if (accept) return true;
HaltsNever(accept) == FALSE
Halts(accept) == accept

\* The per-component indices of the combination on the stack: entry c is
\* the loop index of the frame that folded in recorded component c.
CombinationOnStack ==
    LET m == Len(stack) - 1
    IN [c \in 1..m |-> stack[m + 1 - c].i]

\* const HandleMapSeqSeq& comp_var_gnds, comp_term_gnds at the call, copied
\* into the callee's own locals before it pops ("copies, NOT references!"):
\* what the callee popped does not show in the caller's sequences.
ParamsShared(caller, callee) ==
    [caller EXCEPT !.comp_var_gnds = callee.comp_var_gnds,
                   !.comp_term_gnds = callee.comp_term_gnds]
ParamsAfterCall(caller, callee) == caller

\* return r; from the top activation record.  The outermost one returns to
\* satisfy, which returns the same value.
Return(r) ==
    /\ stack' = IF Len(stack) = 1 THEN <<>>
                ELSE [Front(stack) EXCEPT
                        ![Len(stack) - 1] = ParamsAfterCall(@, Top)]
    /\ IF Len(stack) = 1
       THEN pc' = "done" /\ result' = r /\ retval' = FALSE
       ELSE pc' = pc /\ result' = result /\ retval' = r

\* pmcb.set_pattern(_varlist, _pat);
\* return recursive_virtual(pmcb, _virtual, _pat.optionals, empty_vg,
\*                          empty_pg, comp_var_gnds, comp_term_gnds);
JoinStartNoSetPattern ==
    /\ pc = "join"
    /\ ev' = NoEv
    /\ log' = log
    /\ stack' = <<NewFrame(EmptyMap, EmptyMap, comp_var_gnds, comp_term_gnds)>>
    /\ pc' = "rv"
    /\ UNCHANGED <<apart, inputs, matched, i, gcb, found, srch, comp_var_gnds, comp_term_gnds,
                   retval, result, cur, explored, accepted>>
JoinStart ==
    /\ pc = "join"
    /\ ev' = Call("set_pattern", 0, Undefined, FALSE, EmptyMap, EmptyMap, FALSE)
    /\ log' = Append(log, LogEntry("set_pattern", 0))
    /\ stack' = <<NewFrame(EmptyMap, EmptyMap, comp_var_gnds, comp_term_gnds)>>
    /\ pc' = "rv"
    /\ UNCHANGED <<apart, inputs, matched, i, gcb, found, srch, comp_var_gnds, comp_term_gnds,
                   retval, result, cur, explored, accepted>>

\* Entry of recursive_virtual: the base case test, else pop the last
\* component's groundings off the copies.
RvEntry ==
    /\ pc = "rv"
    /\ Top.pc = "entry"
    /\ IF BaseCase(Top)
       THEN /\ stack' = SetTop([Top EXCEPT !.pc = "virtuals", !.k = 1])
            /\ cur' = <<>>
            /\ explored' = Append(explored,
                                  [idx |-> CombinationOnStack,
                                   vg |-> Top.var_gnds, tg |-> Top.term_gnds])
       ELSE /\ stack' = SetTop([Top EXCEPT
                   !.vg = Top.comp_var_gnds[Len(Top.comp_var_gnds)],
                   !.comp_var_gnds = Front(Top.comp_var_gnds),
                   !.pg = Top.comp_term_gnds[Len(Top.comp_term_gnds)],
                   !.comp_term_gnds = Front(Top.comp_term_gnds),
                   !.i = 1, !.pc = "loop"])
            /\ UNCHANGED <<cur, explored>>
    /\ ev' = NoEv
    /\ UNCHANGED <<apart, inputs, matched, pc, i, gcb, found, srch, comp_var_gnds,
                   comp_term_gnds, retval, result, log, accepted>>

\* for (const Handle& virt : virtuals)
\* { bool match = cb.evaluate_sentence(virt, var_gnds);
\*   if (not match) return false; }
RvVirtual ==
    /\ pc = "rv"
    /\ Top.pc = "virtuals"
    /\ IF Top.k <= Len(virtuals)
       THEN \E match \in BOOLEAN :
              LET c == Call("evaluate_sentence", ClauseAt(virtuals, Top.k), Undefined,
                            FALSE, Top.var_gnds, EmptyMap, match)
              IN /\ ev' = c
                 /\ cur' = Append(cur, c)
                 /\ IF Rejects(match)
                    THEN Return(FALSE)
                    ELSE /\ stack' = SetTop([Top EXCEPT !.k = Top.k + 1])
                         /\ UNCHANGED <<pc, result, retval>>
       ELSE /\ stack' = SetTop([Top EXCEPT !.pc = "optionals", !.k = 1])
            /\ ev' = NoEv
            /\ UNCHANGED <<pc, result, retval, cur>>
    /\ UNCHANGED <<apart, inputs, matched, i, gcb, found, srch, comp_var_gnds,
                   comp_term_gnds, log, explored, accepted>>

\* Handle empty;
\* for (const Handle& opt: optionals)
\* { bool match = cb.optional_clause_match(opt, empty, var_gnds);
\*   if (not match) return false; }
RvOptional ==
    /\ pc = "rv"
    /\ Top.pc = "optionals"
    /\ IF Top.k <= Len(optionals)
       THEN \E match \in BOOLEAN :
              LET c == Call("optional_clause_match", ClauseAt(optionals, Top.k),
                            Undefined, FALSE, Top.var_gnds, EmptyMap, match)
              IN /\ ev' = c
                 /\ cur' = Append(cur, c)
                 /\ IF Rejects(match)
                    THEN Return(FALSE)
                    ELSE /\ stack' = SetTop([Top EXCEPT !.k = Top.k + 1])
                         /\ UNCHANGED <<pc, result, retval>>
       ELSE /\ stack' = SetTop([Top EXCEPT !.pc = "grounding", !.k = 0])
            /\ ev' = NoEv
            /\ UNCHANGED <<pc, result, retval, cur>>
    /\ UNCHANGED <<apart, inputs, matched, i, gcb, found, srch, comp_var_gnds,
                   comp_term_gnds, log, explored, accepted>>

\* return cb.grounding(var_gnds, term_gnds);
RvGrounding ==
    /\ pc = "rv"
    /\ Top.pc = "grounding"
    /\ \E ret \in BOOLEAN :
         LET c == Call("grounding", 0, Undefined, FALSE,
                       Top.var_gnds, Top.term_gnds, ret)
         IN /\ ev' = c
            /\ cur' = Append(cur, c)
            /\ accepted' = (accepted \/ ret)
            /\ Return(ret)
    /\ UNCHANGED <<apart, inputs, matched, i, gcb, found, srch, comp_var_gnds,
                   comp_term_gnds, log, explored>>

\* The loop over the popped component's groundings: copy the accumulated
\* maps, insert candidate i, and recurse with the shortened copies.
RvLoop ==
    /\ pc = "rv"
    /\ Top.pc = "loop"
    /\ IF LoopContinues(Top.i, Len(Top.vg))
       THEN LET rvg == MapInsert(Top.var_gnds, Candidate(Top.vg, Top.i))
                rpg == MapInsert(Top.term_gnds, Candidate(Top.pg, Top.i))
            IN /\ stack' = Append(SetTop([Top EXCEPT !.pc = "called"]),
                                  NewFrame(rvg, rpg, Top.comp_var_gnds,
                                           Top.comp_term_gnds))
               /\ UNCHANGED <<pc, result, retval>>
       ELSE Return(FALSE)
    /\ ev' = NoEv
    /\ UNCHANGED <<apart, inputs, matched, i, gcb, found, srch, comp_var_gnds,
                   comp_term_gnds, log, cur, explored, accepted>>

\* bool accept = recursive_virtual(...);  if (accept) return true;
RvAfterCall ==
    /\ pc = "rv"
    /\ Top.pc = "called"
    /\ IF Halts(retval)
       THEN Return(TRUE)
       ELSE /\ stack' = SetTop([Top EXCEPT !.i = Top.i + 1, !.pc = "loop"])
            /\ retval' = FALSE
            /\ UNCHANGED <<pc, result>>
    /\ ev' = NoEv
    /\ UNCHANGED <<apart, inputs, matched, i, gcb, found, srch, comp_var_gnds,
                   comp_term_gnds, log, cur, explored, accepted>>

\* ---------------------------------------------------------------- Next
Next ==
    \/ Start
    \/ LoopHead
    \/ SetPattern
    \/ InitiateSearch
    \/ SearchReportDirect
    \/ SearchReportCollector
    \/ SearchExhausted
    \/ SearchFinished
    \/ CheckPureOptional
    \/ CheckPureOptionalNullCast
    \/ CheckMandatory
    \/ JoinStart
    \/ RvEntry
    \/ RvVirtual
    \/ RvOptional
    \/ RvGrounding
    \/ RvLoop
    \/ RvAfterCall

Spec == Init /\ [][Next]_vars

\* ------------------------------------------------------------ helpers
Last(s) == s[Len(s)]
Range(s) == { s[n] : n \in 1..Len(s) }

\* The Joiner has been entered (satisfy took the multi-component path to
\* its end).
Joined == ~DirectPath /\ (pc = "rv" \/ explored # <<>>)

\* The top activation record is evaluating a combination.
InBaseCase ==
    pc = "rv" /\ Top.pc \in {"virtuals", "optionals", "grounding"}

\* Every choice of one grounding index per recorded component.
Combinations ==
    { f \in [1..Len(comp_var_gnds) -> 1..MaxGnds] :
        \A c \in 1..Len(comp_var_gnds) : f[c] <= Len(comp_var_gnds[c]) }

MergedVar(idx) == UNION { comp_var_gnds[c][idx[c]] : c \in 1..Len(comp_var_gnds) }
MergedTerm(idx) == UNION { comp_term_gnds[c][idx[c]] : c \in 1..Len(comp_term_gnds) }

\* The calls of a combination that passes every evaluation and is accepted.
PassingCalls(vg, tg) ==
    [j \in 1..Len(virtuals) |->
        Call("evaluate_sentence", virtuals[j], Undefined, FALSE, vg, EmptyMap, TRUE)]
    \o [j \in 1..Len(optionals) |->
        Call("optional_clause_match", optionals[j], Undefined, FALSE, vg, EmptyMap, TRUE)]
    \o << Call("grounding", 0, Undefined, FALSE, vg, tg, TRUE) >>

\* ------------------------------------------------------------- claims
\* C1: the Joiner returns true iff some combination of one grounding per
\* recorded component had every virtual evaluation, every optional
\* evaluation and accept answer true on its merged grounding; it returns
\* false only after every combination of the cross product was evaluated
\* and each one met a false answer.
C1_JoinerResult ==
    /\ (pc = "done" /\ Joined) =>
          /\ result = accepted
          /\ (~result => { explored[n].idx : n \in 1..Len(explored) } = Combinations)
    /\ accepted =>
          /\ Last(explored).idx \in Combinations
          /\ cur = PassingCalls(MergedVar(Last(explored).idx),
                                MergedTerm(Last(explored).idx))
    /\ (Joined /\ explored # <<>> /\ ~accepted /\ ~InBaseCase) =>
          (cur # <<>> /\ ~Last(cur).ret)

C1_Witness ==
    /\ pc = "done" /\ Joined /\ result
    /\ Len(explored) >= 3
    /\ Len(comp_var_gnds) = 2
    /\ Len(virtuals) >= 1 /\ Len(optionals) >= 1

\* C2: once pmcb.grounding has answered true inside the Joiner, no step
\* makes another call on the callback, every step returns from one more
\* activation record of the Joiner with true, and satisfy returns true.
C2_ShortCircuit ==
    [][ accepted' =>
          /\ Len(stack') = Len(stack) - 1
          /\ IF stack' = <<>> THEN pc' = "done" /\ result' ELSE retval'
          /\ accepted => (ev'.op = "none" /\ cur' = cur /\ log' = log
                          /\ explored' = explored) ]_vars

C2_Witness ==
    /\ accepted /\ pc = "rv"
    /\ Top.pc = "called" /\ Top.i < Len(Top.vg)
    /\ Len(stack) >= 2

\* C3: pmcb.grounding is called for a combination only after every virtual
\* clause and every optional clause was evaluated to true against the same
\* merged variable grounding; after a false evaluation no further call is
\* made for that combination and the base case returns false.
C3_AcceptanceGating ==
    /\ \A n \in 1..Len(cur) :
         cur[n].op = "grounding" =>
           /\ n = Len(virtuals) + Len(optionals) + 1
           /\ \A j \in 1..Len(virtuals) :
                cur[j] = Call("evaluate_sentence", virtuals[j], Undefined,
                              FALSE, cur[n].vg, EmptyMap, TRUE)
           /\ \A j \in 1..Len(optionals) :
                cur[Len(virtuals) + j] =
                    Call("optional_clause_match", optionals[j], Undefined,
                         FALSE, cur[n].vg, EmptyMap, TRUE)
    /\ \A n \in 1..Len(cur) :
         (cur[n].op # "grounding" /\ ~cur[n].ret) =>
           /\ n = Len(cur)
           /\ ~InBaseCase
           /\ (pc = "rv" /\ Top.pc = "called") => ~retval
           /\ pc = "done" => ~result

C3_Witness ==
    /\ cur # <<>> /\ Last(cur).op = "grounding"
    /\ Len(virtuals) >= 1 /\ Len(optionals) >= 1

\* C4: when the search of a mandatory (not pure-optional) component found
\* no grounding, satisfy returns false at that component: no later component
\* is searched, the Joiner is not entered and pmcb.grounding is not called.
C4_EmptyFactor ==
    \A k \in 1..num_comps :
      ( /\ ~DirectPath
        /\ ~IsPureOptional(component_patterns[k])
        /\ target[k] = 0
        /\ LogEntry("search_finished", k) \in Range(log) ) =>
          /\ i = k
          /\ pc \in {"check", "done"}
          /\ pc = "done" => ~result
          /\ \A n \in 1..Len(log) : log[n].a <= k /\ log[n] # LogEntry("set_pattern", 0)
          /\ stack = <<>> /\ explored = <<>> /\ cur = <<>>
          /\ ~accepted /\ ev.op # "grounding"

C4_Witness ==
    /\ pc = "done" /\ ~result /\ ~DirectPath
    /\ i \in 1..(num_comps - 1)
    /\ ~IsPureOptional(component_patterns[i])
    /\ target[i] = 0
    /\ target[i + 1] > 0

\* C5: while and after a component is searched through the Collector, the
\* Collector's sequences hold exactly the groundings the search has
\* discovered, in discovery order; after the search they hold all of them.
C5_CollectorExhaustive ==
    (~DirectPath /\ pc \in {"search", "search_finished", "check"}) =>
      /\ gcb.var_groundings = [g \in 1..Len(gcb.var_groundings) |-> VarSoln(i, g)]
      /\ gcb.term_groundings = [g \in 1..Len(gcb.term_groundings) |-> TermSoln(i, g)]
      /\ Len(gcb.var_groundings) = Len(gcb.term_groundings)
      /\ pc = "search" => Len(gcb.var_groundings) = srch
      /\ pc \in {"search_finished", "check"} => Len(gcb.var_groundings) = target[i]

C5_Witness ==
    /\ ~DirectPath /\ pc = "check"
    /\ Len(gcb.var_groundings) >= 2

\* C6: when the search of a pure-optional component has matched one of its
\* optional clauses in the target data, satisfy does not return true and
\* pmcb.grounding is never called.
C6_PureOptionalPolicy ==
    matched # {} =>
      /\ pc = "done" => ~result
      /\ ~accepted
      /\ \A n \in 1..Len(cur) : cur[n].op # "grounding"

\* What holds of a caller whose callback is a DefaultPatternMatchCB: once
\* satisfy has examined the matched component it has returned false,
\* without entering the Joiner.
C6_DefaultCallbackPolicy ==
    cbIsDefault =>
      \A k \in matched :
        (i # k \/ pc \notin {"search_finished", "check"}) =>
          /\ pc = "done" /\ ~result
          /\ stack = <<>> /\ explored = <<>> /\ cur = <<>> /\ ~accepted
          /\ LogEntry("set_pattern", 0) \notin Range(log)

C6_Witness ==
    /\ cbIsDefault
    /\ ev.op = "optionals_present" /\ ev.ret
    /\ i = num_comps /\ i \in matched
    /\ \A k \in 1..num_comps :
         ~IsPureOptional(component_patterns[k]) => target[k] > 0
    /\ \E k \in 1..num_comps : ~IsPureOptional(component_patterns[k])

\* C7: with at most one component satisfy uses no Collector and no Joiner,
\* calls set_pattern, initiate_search and search_finished once each in that
\* order, hands search_finished the value initiate_search returned, and
\* returns the value search_finished returns.
C7_DirectPath ==
    /\ [](DirectPath =>
            /\ gcb = EmptyCollector /\ stack = <<>>
            /\ comp_var_gnds = <<>> /\ comp_term_gnds = <<>>
            /\ explored = <<>> /\ cur = <<>>
            /\ pc = "done" =>
                 /\ log = << LogEntry("set_pattern", 0),
                             LogEntry("initiate_search", 0),
                             LogEntry("search_finished", 0) >>
                 /\ ev.op = "search_finished"
                 /\ result = ev.ret
                 /\ (ev.ret = ev.b => result = ev.b))
    /\ [][ (DirectPath /\ pc = "search_finished" /\ pc' # pc) =>
             (ev'.op = "search_finished" /\ ev'.b = found) ]_vars

C7_Witness ==
    /\ DirectPath /\ pc = "done" /\ result
    /\ ev.op = "search_finished" /\ ev.b = ev.ret

\* C8: for every activation record the Joiner created by merging a
\* candidate into the accumulated maps, the merged map keeps every binding
\* of both and its key count is the sum of their key counts, for the
\* variable map and for the clause map.
C8_MergeDisjoint ==
    \A d \in 2..Len(stack) :
      LET parent == stack[d - 1]
          child == stack[d]
          cand_vg == parent.vg[parent.i]
          cand_pg == parent.pg[parent.i]
      IN /\ Cardinality(Keys(child.var_gnds)) =
              Cardinality(Keys(parent.var_gnds)) + Cardinality(Keys(cand_vg))
         /\ Cardinality(Keys(child.term_gnds)) =
              Cardinality(Keys(parent.term_gnds)) + Cardinality(Keys(cand_pg))
         /\ parent.var_gnds \subseteq child.var_gnds
         /\ cand_vg \subseteq child.var_gnds
         /\ parent.term_gnds \subseteq child.term_gnds
         /\ cand_pg \subseteq child.term_gnds

C8_Witness ==
    /\ Len(stack) >= 3
    /\ stack[2].var_gnds # EmptyMap
    /\ Cardinality(Keys(stack[3].var_gnds)) > Cardinality(Keys(stack[2].var_gnds))

\* C9: the Joiner reaches its base case at most N_1*...*N_m times, never
\* with the same combination of per-component indices twice, and a
\* grounding accepted by pmcb is the merge of exactly the groundings of the
\* combination being evaluated.
C9_CrossProduct ==
    /\ Len(explored) <= Cardinality(Combinations)
    /\ \A a, b \in 1..Len(explored) :
         a # b => explored[a].idx # explored[b].idx
    /\ \A n \in 1..Len(explored) : explored[n].idx \in Combinations
    /\ \A n \in 1..Len(cur) :
         (cur[n].op = "grounding" /\ cur[n].ret) =>
           /\ cur[n].vg = MergedVar(Last(explored).idx)
           /\ cur[n].tg = MergedTerm(Last(explored).idx)

C9_Witness ==
    /\ accepted
    /\ Len(comp_var_gnds) = 2
    /\ Len(explored) = Cardinality(Combinations)
    /\ Len(explored) >= 4

\* C10: when the Joiner runs, the last call satisfy made on pmcb before it
\* is set_pattern with the overall pattern, made after the last component's
\* search, so the latest set_pattern pmcb has seen is the overall one.
C10_OverallSetPattern ==
    (pc = "rv" \/ cur # <<>> \/ explored # <<>>) =>
      /\ Len(log) >= 2
      /\ Last(log) = LogEntry("set_pattern", 0)
      /\ log[Len(log) - 1].op \in {"search_finished", "optionals_present"}
      /\ log[Len(log) - 1].a = num_comps
      /\ \A n \in 1..(Len(log) - 1) : log[n] # LogEntry("set_pattern", 0)

C10_Witness ==
    /\ pc = "rv" /\ ev.op = "evaluate_sentence"
    /\ Len(cur) = 1 /\ Len(explored) = 1

\* C11: Collector transparency.  Whatever operation other than grounding is
\* called on the Collector, the Collector makes exactly one call on the
\* wrapped callback, of the same operation and with the same arguments, and
\* gives back what the wrapped callback answered; its collected sequences
\* are those of the grounding calls alone.
C11_CollectorTransparency ==
    fwd.req.op \notin {"none", "grounding"} =>
        /\ Len(fwd.sent) = 1
        /\ fwd.sent[1].op = fwd.req.op
        /\ fwd.sent[1].a = fwd.req.a
        /\ fwd.sent[1].h = fwd.req.h
        /\ fwd.sent[1].b = fwd.req.b
        /\ fwd.sent[1].vg = fwd.req.vg
        /\ fwd.sent[1].tg = fwd.req.tg
        /\ fwd.sent[1].ret = fwd.ans.b
        /\ fwd.out = fwd.ans

C11_Witness ==
    /\ fwd.req.op = "clause_match"
    /\ fwd.req.a = 1 /\ fwd.req.h = 2 /\ fwd.req.vg # EmptyMap
    /\ fwd.ans.b /\ fwd.out.b
    /\ Len(fwd.sent) = 1
    /\ Len(fwd.g.term_groundings) = 1

\* The clauses of the call that hold a declared variable, and the clauses
\* reachable from a set of them by steps between two clauses that share a
\* declared variable.
NonConstant ==
    { c \in 1..Len(decomp.body) : decomp.body[c] \cap decomp.vars # {} }
SharesVariable(c, d) ==
    decomp.body[c] \cap decomp.body[d] \cap decomp.vars # {}
ConnectedTo(S) ==
    LET RECURSIVE Grow(_)
        Grow(T) == LET N == T \cup { c \in NonConstant :
                                       \E d \in T : SharesVariable(c, d) }
                   IN IF N = T THEN T ELSE Grow(N)
    IN Grow(S)
ComponentOf(c) ==
    { k \in 1..Len(decomp.compset) :
        \E n \in 1..Len(decomp.compset[k]) : decomp.compset[k][n] = c }

\* C12: component partition invariant.  When get_connected_components has
\* returned, every clause that is not constant is in exactly one component
\* and at one position of it, no constant clause is in any component, no
\* component is empty, and two clauses are in the same component exactly
\* when a chain of clauses sharing declared variables links them.
C12_ComponentPartition ==
    decomp.pc = "done" =>
        /\ \A c \in NonConstant : Cardinality(ComponentOf(c)) = 1
        /\ \A c \in (1..Len(decomp.body)) \ NonConstant : ComponentOf(c) = {}
        /\ \A k \in 1..Len(decomp.compset) :
             /\ Len(decomp.compset[k]) > 0
             /\ \A m, n \in 1..Len(decomp.compset[k]) :
                  m # n => decomp.compset[k][m] # decomp.compset[k][n]
        /\ \A c, d \in NonConstant :
             (ComponentOf(c) = ComponentOf(d)) <=> (d \in ConnectedTo({c}))

\* Three clauses, none constant, decomposed into two components, one of
\* them of two clauses.
C12_Witness ==
    /\ decomp.pc = "done"
    /\ Len(decomp.body) = 3
    /\ Len(decomp.compset) = 2
    /\ Cardinality(NonConstant) = 3

\* C13: in the multi-component path no call of the caller's grounding is
\* made while the components are searched: what a component search has
\* discovered so far is in the Collector, in order, and a call of the
\* caller's grounding is made only when the component loop has gone past
\* the last component and the Joiner is in a base case, on the maps of the
\* combination that reached it.
C13_AcceptOnlyInJoiner ==
    ~DirectPath =>
        /\ (pc \in {"start", "loop", "set_pattern", "initiate_search", "search",
                     "search_finished", "check", "join"}) =>
               (ev.op # "grounding" /\ cur = <<>> /\ explored = <<>> /\ ~accepted)
        /\ (pc = "search") =>
               /\ Len(gcb.var_groundings) = srch
               /\ Len(gcb.term_groundings) = srch
               /\ \A g \in 1..srch :
                    /\ gcb.var_groundings[g] = VarSoln(i, g)
                    /\ gcb.term_groundings[g] = TermSoln(i, g)
        /\ (ev.op = "grounding") =>
               /\ i = num_comps + 1
               /\ explored # <<>>
               /\ cur # <<>> /\ Last(cur) = ev
               /\ ev.vg = Last(explored).vg /\ ev.tg = Last(explored).tg

C13_Witness ==
    /\ ~DirectPath
    /\ ev.op = "grounding"
    /\ Len(explored) = 1
    /\ Len(comp_var_gnds) = 2
    /\ Len(comp_var_gnds[1]) = 2 /\ Len(comp_var_gnds[2]) = 2

\* The components whose groundings satisfy records, in loop order: the
\* ones that are not pure-optional.
RecordedComponents ==
    SelectSeq([k \in 1..num_comps |-> k],
              LAMBDA k : ~IsPureOptional(component_patterns[k]))

\* The candidates chosen by the activation records below record d.
ChosenBelow(d, seqs) ==
    UNION { seqs[Len(seqs) + 1 - e][stack[e].i] : e \in 1..(d - 1) }

\* C14: sibling-branch isolation.  While the Joiner runs and after it has
\* returned, satisfy's per-component sequences are the ones collected (the
\* g-th entry of the variable and of the clause sequence from the g-th
\* grounding of that component); every combination that reached the base
\* case did so with exactly the union of the chosen candidate of each
\* recorded component, variable map and clause map from the same index;
\* every call made for it carries that variable grounding, and so does
\* accept with the clause grounding; and in every activation record the
\* sequences still to fold are the caller's minus the popped ones, and the
\* base maps are the candidates chosen below it, nothing more or less.
C14_SiblingIsolation ==
    Joined =>
        /\ Len(comp_var_gnds) = Len(RecordedComponents)
        /\ Len(comp_term_gnds) = Len(RecordedComponents)
        /\ \A c \in 1..Len(RecordedComponents) :
             LET k == RecordedComponents[c]
             IN /\ comp_var_gnds[c] = [g \in 1..target[k] |-> VarSoln(k, g)]
                /\ comp_term_gnds[c] = [g \in 1..target[k] |-> TermSoln(k, g)]
        /\ \A n \in 1..Len(explored) :
             /\ explored[n].vg =
                  UNION { VarSoln(RecordedComponents[c], explored[n].idx[c]) :
                            c \in 1..Len(RecordedComponents) }
             /\ explored[n].tg =
                  UNION { TermSoln(RecordedComponents[c], explored[n].idx[c]) :
                            c \in 1..Len(RecordedComponents) }
        /\ \A n \in 1..Len(cur) :
             /\ cur[n].vg = Last(explored).vg
             /\ cur[n].op = "grounding" => cur[n].tg = Last(explored).tg
        /\ \A d \in 1..Len(stack) :
             LET m == Len(comp_var_gnds)
                 left == IF stack[d].pc = "entry" THEN m + 1 - d ELSE m - d
             IN /\ stack[d].var_gnds = ChosenBelow(d, comp_var_gnds)
                /\ stack[d].term_gnds = ChosenBelow(d, comp_term_gnds)
                /\ (stack[d].pc \in {"entry", "loop", "called"}) =>
                      /\ stack[d].comp_var_gnds = SubSeq(comp_var_gnds, 1, left)
                      /\ stack[d].comp_term_gnds = SubSeq(comp_term_gnds, 1, left)
                /\ (stack[d].pc \in {"loop", "called"}) =>
                      /\ stack[d].vg = comp_var_gnds[m + 1 - d]
                      /\ stack[d].pg = comp_term_gnds[m + 1 - d]

\* The fourth combination of two components is submitted to accept after
\* three siblings were tried and given up.
C14_Witness ==
    /\ pc = "rv" /\ ev.op = "grounding"
    /\ Len(comp_var_gnds) = 2
    /\ Len(explored) = 4
    /\ Last(explored).idx = <<2, 2>>

\* The place of a combination in the order that has the last recorded
\* component most significant and the first one varying fastest.
Rank(idx) ==
    LET RECURSIVE Weighted(_)
        Weighted(c) ==
            IF c > Len(comp_var_gnds) THEN 0
            ELSE LET RECURSIVE Stride(_)
                     Stride(e) == IF e = 0 THEN 1
                                  ELSE Len(comp_var_gnds[e]) * Stride(e - 1)
                 IN ((idx[c] - 1) * Stride(c - 1)) + Weighted(c + 1)
    IN 1 + Weighted(1)
NthCombination(n) == CHOOSE idx \in Combinations : Rank(idx) = n

\* C15: exploration order.  The n-th combination to reach the base case is
\* the n-th of the cross product in the order that has the last recorded
\* component most significant and the first one varying fastest, each
\* component's groundings taken in the order they were collected; when
\* accept has answered true it did so for the latest of them, all of whose
\* evaluations passed, and every combination left behind without an
\* acceptance met a false answer.
C15_ExplorationOrder ==
    Joined =>
        /\ \A n \in 1..Len(explored) :
             /\ explored[n].idx \in Combinations
             /\ Rank(explored[n].idx) = n
             /\ explored[n].vg = MergedVar(NthCombination(n))
             /\ explored[n].tg = MergedTerm(NthCombination(n))
        /\ accepted =>
             /\ \A n \in 1..Len(cur) : cur[n].ret
             /\ Last(cur).op = "grounding"
             /\ Last(cur).vg = MergedVar(NthCombination(Len(explored)))
             /\ Last(cur).tg = MergedTerm(NthCombination(Len(explored)))
        /\ (explored # <<>> /\ ~accepted /\ ~InBaseCase) =>
             \E n \in 1..Len(cur) : ~cur[n].ret

\* Two components of two groundings each: the third combination to reach
\* the base case takes the first grounding of the first component and the
\* second of the last, and accept answers true for it.
C15_Witness ==
    /\ accepted
    /\ Len(comp_var_gnds) = 2
    /\ Len(comp_var_gnds[1]) = 2 /\ Len(comp_var_gnds[2]) = 2
    /\ Len(explored) = 3
    /\ Last(explored).idx = <<1, 2>>

C17_TerminationExhaustion ==
    /\ (pc = "done" \/ ENABLED Next)
    /\ (pc = "done" /\ Joined /\ ~result) =>
          /\ Len(explored) = Cardinality(Combinations)
          /\ \A idx \in Combinations :
               Cardinality({ n \in 1..Len(explored) : explored[n].idx = idx }) = 1
    /\ \A a, b \in 1..Len(log) :
          (a # b /\ log[a].op = "initiate_search") => log[a] # log[b]

\* The part of C17 that does not turn on the way satisfy ends: the Joiner
\* exhausts the cross product, once each, before it returns false, and no
\* component is searched twice.
C17_JoinerExhaustion ==
    /\ (pc = "done" /\ Joined /\ ~result) =>
          /\ Len(explored) = Cardinality(Combinations)
          /\ \A idx \in Combinations :
               Cardinality({ n \in 1..Len(explored) : explored[n].idx = idx }) = 1
    /\ \A a, b \in 1..Len(log) :
          (a # b /\ log[a].op = "initiate_search") => log[a] # log[b]

\* C18: satisfy never faults: whatever the concrete type of the caller's
\* callback, the processing of a pure-optional component ends in a false
\* result or goes on to the next component, and satisfy ends by returning
\* a boolean.
C18_NeverFaults ==
    /\ pc # "fault"
    /\ result \in BOOLEAN

\* The components the loop has dealt with so far that are recorded.
RecordedBefore(k) ==
    SelectSeq(RecordedComponents, LAMBDA c : c < k)

\* C19: a pure-optional component is never a factor of the join and never
\* makes satisfy return for want of groundings.  The sequences recorded are
\* those of the components that are not pure-optional, so the Joiner's
\* recursion is as deep as their number; after optionals_present has
\* answered false the loop is at the next component and nothing was
\* recorded for this one, whatever its search collected; and when every
\* component is pure-optional and none was matched, satisfy ends only by
\* the Joiner's return, the Joiner having reached its base case once, with
\* empty maps, and having called grounding on them if every evaluation
\* answered true.
C19_PureOptionalNeverFactor ==
    ~DirectPath =>
        /\ (pc \in {"loop", "set_pattern", "initiate_search", "search",
                     "search_finished", "check"}) =>
               Len(comp_var_gnds) = Len(RecordedBefore(i))
        /\ (pc \in {"join", "rv"}) =>
               /\ Len(comp_var_gnds) = Len(RecordedComponents)
               /\ Len(stack) <= Len(RecordedComponents) + 1
        /\ (ev.op = "optionals_present" /\ ~ev.ret) =>
               /\ pc = "loop" /\ i = ev.a + 1
               /\ Len(comp_var_gnds) = Len(RecordedBefore(i))
               /\ ev.a \notin Range(RecordedComponents)
        /\ (RecordedComponents = <<>> /\ matched = {} /\ ~ENABLED Next) =>
               /\ pc = "done"
               /\ explored = << [idx |-> <<>>, vg |-> EmptyMap, tg |-> EmptyMap] >>
               /\ (\A n \in 1..Len(cur) : cur[n].ret) =>
                     (result /\ cur = PassingCalls(EmptyMap, EmptyMap))
               /\ (\E n \in 1..Len(cur) : ~cur[n].ret) => ~result

\* C19 for a caller's callback that is a DefaultPatternMatchCB.
C19_DefaultCallback == cbIsDefault => C19_PureOptionalNeverFactor

\* C20 as stated: in the multi-component path satisfy returns from the
\* component loop only because the sequence collected for the component in
\* hand is empty (here for a caller's callback that is a
\* DefaultPatternMatchCB).
C20_OnlyThroughSequences ==
    (~DirectPath /\ cbIsDefault /\ pc = "done" /\ ~Joined) => EmptyFactor(gcb)

\* C20, amended: in the multi-component path the value a component's
\* search returns is dropped: right after search_finished has answered,
\* whatever it answered and whatever the search had found, satisfy is at
\* the check of the component with nothing returned.  For a component that
\* is not pure-optional, satisfy returns from the loop exactly when the
\* collected sequence is empty, and otherwise records the sequences as
\* collected; a return from the loop at a pure-optional component comes
\* from the optional-matched query, not from its sequences.  The
\* Collector's two sequences have the same length, and their g-th entries
\* are the two maps of the g-th grounding call.
C20_SearchResultDropped ==
    ~DirectPath =>
        /\ (ev.op = "search_finished") =>
               (pc = "check" /\ ~result /\ ~found /\ i = ev.a)
        /\ (pc = "done" /\ ~Joined) =>
               /\ i \in 1..num_comps
               /\ ~result
               /\ ~IsPureOptional(component_patterns[i]) => EmptyFactor(gcb)
               /\ IsPureOptional(component_patterns[i]) =>
                     (cbIsDefault => (ev.op = "optionals_present" /\ ev.ret))
        /\ (pc = "loop" /\ i > 1 /\ ~IsPureOptional(component_patterns[i - 1])) =>
               /\ Len(Last(comp_var_gnds)) = target[i - 1]
               /\ Len(Last(comp_var_gnds)) > 0
               /\ Len(Last(comp_term_gnds)) = target[i - 1]
        /\ Len(gcb.var_groundings) = Len(gcb.term_groundings)
        /\ (pc # "loop") =>
             \A g \in 1..Len(gcb.var_groundings) :
               /\ gcb.var_groundings[g] = VarSoln(i, g)
               /\ gcb.term_groundings[g] = TermSoln(i, g)

\* The search of a component has collected two groundings and its
\* search_finished hook has answered false: satisfy goes on to look at the
\* collected sequence.
C20_Witness ==
    /\ ~DirectPath
    /\ ev.op = "search_finished" /\ ~ev.ret /\ ~ev.b
    /\ pc = "check"
    /\ Len(gcb.var_groundings) = 2
    /\ ~IsPureOptional(component_patterns[i])

====
